---- MODULE Spec2Model ----
(***************************************************************************)
(* Uptime Robot exporter (src/uptime_robot_exporter.py).                   *)
(*                                                                         *)
(* The process is modelled from module import to the sleep loop of main(): *)
(* the module-level startup validation, the start of the WSGI listener,    *)
(* the registration of the collector, and the handling of HTTP requests by *)
(* the single server thread.  A scrape of /metrics runs                    *)
(* UptimeRobotCollector.collect() step by step: the upstream call, the     *)
(* transformation of one monitor after the other, the yield of one metric  *)
(* after the other.                                                        *)
(***************************************************************************)
EXTENDS Integers, Sequences, FiniteSets, TLC

VARIABLES
    env,        \* os.environ: the five variables the module reads
    mainpc,     \* position of the main thread
    alive,      \* FALSE once the process has terminated
    exitCode,   \* exit code of the terminated process, -1 while it runs
    registered, \* the collector is in REGISTRY
    srvpc,      \* position of the server thread (httpd.serve_forever)
    path,       \* PATH_INFO of the request being handled
    response,   \* upstream response of the current call of _get_monitors
    apiKeySent, \* api_key value of the payload of the last upstream call
    calls,      \* upstream calls made while handling the current request
    idx,        \* loop position in get_metrics / collect
    metrics,    \* get_metrics: the list `metrics`
    emitted,    \* metrics yielded by collect() to the serving layer so far
    last,       \* the last request whose handling ended
    first       \* the first collection cycle that ended (history)

vars == <<env, mainpc, alive, exitCode, registered, srvpc, path, response,
          apiKeySent, calls, idx, metrics, emitted, last, first>>

(***************************************************************************)
(* Bounds                                                                  *)
(***************************************************************************)
\* monitors in one upstream response
MaxMonitors == 2

(***************************************************************************)
(* Values of the JSON document and of the environment                      *)
(***************************************************************************)
\* a JSON value: kind, and the payload of that kind
IntV(n) == [kind |-> "int", i |-> n, s |-> "", l |-> <<>>]
StrV(t) == [kind |-> "str", i |-> 0, s |-> t, l |-> <<>>]
BoolV(b) == [kind |-> "bool", i |-> IF b THEN 1 ELSE 0, s |-> "", l |-> <<>>]
NullV == [kind |-> "null", i |-> 0, s |-> "", l |-> <<>>]
\* a list of {"datetime": ..., "value": n} objects, kept as the list of n
ListV(q) == [kind |-> "list", i |-> 0, s |-> "", l |-> q]

\* an environment variable: unset, or set to a value (possibly empty)
Unset(dflt) == [set |-> FALSE, v |-> dflt]
SetTo(t) == [set |-> TRUE, v |-> t]

\* os.environ.get(name, default)
EnvGet(var, default) == IF var.set THEN var.v ELSE default

DigitChars == <<"0", "1", "2", "3", "4", "5", "6", "7", "8", "9">>

\* str(n) for a non-negative digit
DigitStr(d) == DigitChars[d + 1]

RECURSIVE NatStr(_)
NatStr(n) == IF n < 10 THEN DigitStr(n) ELSE NatStr(n \div 10) \o DigitStr(n % 10)

\* str(n) of an int
IntStr(n) == IF n < 0 THEN "-" \o NatStr(0 - n) ELSE NatStr(n)

RECURSIVE ListStr(_)
ListStr(q) ==
    IF q = <<>> THEN ""
    ELSE "{'value': " \o IntStr(Head(q)) \o "}"
         \o (IF Len(q) > 1 THEN ", " ELSE "") \o ListStr(Tail(q))

\* str(v) of a JSON value
Str(v) ==
    CASE v.kind = "int" -> IntStr(v.i)
      [] v.kind = "str" -> v.s
      [] v.kind = "bool" -> (IF v.i = 1 THEN "True" ELSE "False")
      [] v.kind = "null" -> "None"
      [] v.kind = "list" -> "[" \o ListStr(v.l) \o "]"

\* the truth value of v in `if v and v is not None`
Truthy(v) ==
    CASE v.kind = "int" -> v.i # 0
      [] v.kind = "str" -> v.s # ""
      [] v.kind = "bool" -> v.i = 1
      [] v.kind = "null" -> FALSE
      [] v.kind = "list" -> v.l # <<>>

(***************************************************************************)
(* Environment and startup validation                                      *)
(***************************************************************************)
\* the port text is a sequence of characters, so that int() can read it
DefaultPort == <<"8", "1", "2", "3">>

EnvNames == {Unset(""), SetTo("custom")}
EnvLogLevels == {Unset(""), SetTo("debug"), SetTo("verbose")}
EnvTimeZones == {Unset(""), SetTo("Mars/Phobos")}
EnvApiKeys == {Unset(""), SetTo(""), SetTo("k")}
EnvPorts == {Unset(<<>>), SetTo(<<"8", "x">>)}

Environments ==
    [name : EnvNames, loglevel : EnvLogLevels, tz : EnvTimeZones,
     key : EnvApiKeys, port : EnvPorts]

UPTIME_ROBOT_EXPORTER_NAME == EnvGet(env.name, "uptime-robot-exporter")

\* str.upper() on the level names of the model
Upper(t) ==
    CASE t = "debug" -> "DEBUG"
      [] t = "verbose" -> "VERBOSE"
      [] OTHER -> t

UPTIME_ROBOT_EXPORTER_LOGLEVEL == Upper(EnvGet(env.loglevel, "INFO"))

UPTIME_ROBOT_EXPORTER_TZ == EnvGet(env.tz, "Europe/Paris")

\* os.environ.get("UPTIME_ROBOT_API_KEY"), as the payload formats it: the
\* text None when the variable is unset
UPTIME_ROBOT_API_KEY == IF env.key.set THEN env.key.v ELSE "None"

\* pytz.timezone(tz) does not raise UnknownTimeZoneError
KnownTimeZone(tz) == tz \in {"Europe/Paris", "UTC"}

\* logging.basicConfig(level=l) does not raise ValueError
KnownLogLevel(l) ==
    l \in {"CRITICAL", "FATAL", "ERROR", "WARN", "WARNING", "INFO", "DEBUG",
           "NOTSET"}

\* the port taken as it is, without int()
AnyPortText(text) == TRUE

\* int(text) does not raise ValueError: an optional sign, then digits
IsIntLiteral(text) ==
    LET body == IF text # <<>> /\ Head(text) \in {"+", "-"}
                THEN Tail(text) ELSE text
    IN /\ body # <<>>
       /\ \A k \in 1..Len(body) : \E d \in 1..10 : body[k] = DigitChars[d]

(***************************************************************************)
(* Upstream responses                                                      *)
(***************************************************************************)
\* one key of a monitor object with its value; a monitor is the sequence of
\* its fields in document order
Field(k, v) == [k |-> k, v |-> v]

SiteA ==
    <<Field("id", IntV(1)), Field("friendly_name", StrV("Site A")),
      Field("status", IntV(2)), Field("response_times", ListV(<<134>>))>>

NoHistory ==
    <<Field("id", IntV(2)), Field("status", IntV(0)),
      Field("response_times", ListV(<<>>))>>

Falsy ==
    <<Field("id", IntV(0)), Field("friendly_name", StrV("")),
      Field("ssl", NullV), Field("paused", BoolV(FALSE)),
      Field("job", IntV(0)), Field("average_response_time", StrV("120.5")),
      Field("status", IntV(0))>>

JobField ==
    <<Field("response_times", ListV(<<0>>)), Field("id", IntV(3)),
      Field("job", StrV("x")), Field("paused", BoolV(TRUE)),
      Field("status", IntV(9))>>

Monitors == {SiteA, NoHistory, Falsy, JobField}

\* lists of distinct monitors, MaxMonitors at most
MonitorLists ==
    {q \in UNION {[1..n -> Monitors] : n \in 0..MaxMonitors} :
        \A a, b \in 1..Len(q) : a # b => q[a] # q[b]}

\* what requests.request() gives: transport is FALSE when it raises;
\* otherwise the status code and the body (parseable as JSON or not, its
\* "stat", whether it has "error"/"message" and "monitors")
Response(tr, code, js, st, er, hm, ms) ==
    [transport |-> tr, status_code |-> code, parseable |-> js, stat |-> st,
     hasError |-> er, hasMonitors |-> hm, monitors |-> ms]

\* a body without "stat"
NoStat == "<absent>"

OkResponses ==
    {Response(TRUE, 200, TRUE, "ok", FALSE, TRUE, q) : q \in MonitorLists}

FailedResponses ==
    { Response(FALSE, 0, FALSE, NoStat, FALSE, FALSE, <<>>),
      Response(TRUE, 500, TRUE, "fail", TRUE, FALSE, <<>>),
      Response(TRUE, 200, FALSE, NoStat, FALSE, FALSE, <<>>),
      Response(TRUE, 200, TRUE, NoStat, FALSE, FALSE, <<>>),
      Response(TRUE, 200, TRUE, "fail", TRUE, FALSE, <<>>),
      Response(TRUE, 200, TRUE, "fail", FALSE, FALSE, <<>>),
      Response(TRUE, 200, TRUE, "maintenance", FALSE, FALSE, <<>>),
      Response(TRUE, 200, TRUE, "ok", FALSE, FALSE, <<>>) }

Responses == OkResponses \cup FailedResponses

\* no upstream call was made yet
NotSent == "<no call>"

NoResponse ==
    [transport |-> FALSE, status_code |-> 0, parseable |-> FALSE,
     stat |-> "", hasError |-> FALSE, hasMonitors |-> FALSE,
     monitors |-> <<>>]

NoRequest ==
    [path |-> "", status |-> "", calls |-> 0, response |-> NoResponse,
     samples |-> <<>>]

NoCycle == [seen |-> FALSE, response |-> NoResponse, samples |-> <<>>]

Init ==
    /\ env \in Environments
    /\ mainpc = "logging"
    /\ alive = TRUE
    /\ exitCode = -1
    /\ registered = FALSE
    /\ srvpc = "down"
    /\ path = ""
    /\ response = NoResponse
    /\ apiKeySent = NotSent
    /\ calls = 0
    /\ idx = 0
    /\ metrics = <<>>
    /\ emitted = <<>>
    /\ last = NoRequest
    /\ first = NoCycle

\* os._exit(code), or the interpreter ending on an uncaught exception of the
\* main thread: every thread stops
Exit(code) ==
    /\ alive' = FALSE
    /\ exitCode' = code
    /\ mainpc' = "exited"
    /\ srvpc' = IF srvpc = "down" THEN "down" ELSE "stopped"

\* the try block of the logging configuration
ConfigureLogging ==
    /\ alive /\ mainpc = "logging"
    /\ IF KnownTimeZone(UPTIME_ROBOT_EXPORTER_TZ)
          /\ KnownLogLevel(UPTIME_ROBOT_EXPORTER_LOGLEVEL)
       THEN /\ mainpc' = "mandatory"
            /\ UNCHANGED <<alive, exitCode, srvpc>>
       ELSE Exit(1)
    /\ UNCHANGED <<env, registered, path, response, apiKeySent, calls, idx,
                   metrics, emitted, last, first>>

\* the check of the mandatory variables left out
MandatoryUnchecked == TRUE

\* every var of MANDATORY_ENV_VARS is in os.environ
MandatorySet == env.key.set

\* for var in MANDATORY_ENV_VARS: if var not in os.environ
CheckMandatoryEnv ==
    /\ alive /\ mainpc = "mandatory"
    /\ IF MandatorySet
       THEN /\ mainpc' = "port"
            /\ UNCHANGED <<alive, exitCode, srvpc>>
       ELSE Exit(1)
    /\ UNCHANGED <<env, registered, path, response, apiKeySent, calls, idx,
                   metrics, emitted, last, first>>

\* UPTIME_ROBOT_EXPORTER_PORT = int(os.environ.get(..., "8123"))
CheckPort ==
    /\ alive /\ mainpc = "port"
    /\ IF IsIntLiteral(EnvGet(env.port, DefaultPort))
       THEN /\ mainpc' = "main"
            /\ UNCHANGED <<alive, exitCode, srvpc>>
       ELSE Exit(1)
    /\ UNCHANGED <<env, registered, path, response, apiKeySent, calls, idx,
                   metrics, emitted, last, first>>

\* main(): start_http_server(UPTIME_ROBOT_EXPORTER_PORT)
StartHttpServer ==
    /\ alive /\ mainpc = "main"
    /\ mainpc' = "register"
    /\ srvpc' = "idle"
    /\ UNCHANGED <<env, alive, exitCode, registered, path, response,
                   apiKeySent, calls, idx, metrics, emitted, last, first>>

(***************************************************************************)
(* UptimeRobotCollector                                                    *)
(***************************************************************************)
\* the table METRICS
METRICS ==
    <<[name |-> "status", description |-> "Uptime Robot Status",
       type |-> "gauge"],
      [name |-> "response_times", description |-> "Uptime Robot Response Time",
       type |-> "gauge"]>>

\* [metric["name"] for metric in METRICS]
MetricNames == {METRICS[n].name : n \in 1..Len(METRICS)}

\* [metric[attr] for metric in METRICS if key == metric["name"]][0]
MetricDef(key) ==
    METRICS[CHOOSE n \in 1..Len(METRICS) :
                /\ METRICS[n].name = key
                /\ \A p \in 1..(n - 1) : METRICS[p].name # key]

\* how _get_monitors ends on a response: it returns res.json(), it calls
\* os._exit(1), or an exception leaves it
GetMonitorsOutcome(res) ==
    IF ~res.transport THEN "raise"
    ELSE IF res.status_code # 200 THEN "exit"
    ELSE IF ~res.parseable \/ res.stat = NoStat THEN "raise"
    ELSE IF res.stat = "ok" THEN "return"
    ELSE IF res.stat = "fail" THEN (IF res.hasError THEN "exit" ELSE "raise")
    ELSE "exit"

\* monitor[key] for a key of the monitor
ValueOf(monitor, key) ==
    monitor[CHOOSE n \in 1..Len(monitor) : monitor[n].k = key].v

\* the dict comprehension without `if v and v is not None`
LabelKeysUnfiltered(monitor) ==
    {monitor[n].k : n \in
        {n \in 1..Len(monitor) :
            /\ monitor[n].k \notin MetricNames
            /\ monitor[n].k # "average_response_time"}}

\* the keys the dict comprehension of metric_labels keeps
LabelKeys(monitor) ==
    {monitor[n].k : n \in
        {n \in 1..Len(monitor) :
            /\ Truthy(monitor[n].v)
            /\ monitor[n].k \notin MetricNames
            /\ monitor[n].k # "average_response_time"}}

\* metric_labels = {k: str(v) for k, v in monitor.items() if ...}
MetricLabels(monitor) ==
    [k \in LabelKeys(monitor) |-> Str(ValueOf(monitor, k))]

\* value[0]["value"] raises (IndexError on an empty list, TypeError on a
\* value that is no list)
FirstValueRaises(value) == value.kind # "list" \/ value.l = <<>>

\* the dict appended to metrics for one key of a monitor; `monitor` is the
\* position of the monitor in the response, kept to tell the monitors'
\* metrics apart
MetricOf(pos, key, value, labels) ==
    [name |-> IF key = "response_times" THEN "uptime_robot_response_time"
              ELSE "uptime_robot_" \o key,
     description |-> MetricDef(key).description,
     type |-> MetricDef(key).type,
     labels |-> labels,
     value |-> IF key = "response_times" THEN IntV(value.l[1]) ELSE value,
     monitor |-> pos]

\* the loop `for key, value in monitor.items()` from field n on: the list
\* with the metrics of the monitor appended, and whether the loop raised
RECURSIVE MonitorLoop(_, _, _, _)
MonitorLoop(pos, monitor, n, acc) ==
    IF n > Len(monitor) THEN [metrics |-> acc, raised |-> FALSE]
    ELSE IF monitor[n].k \notin MetricNames
    THEN MonitorLoop(pos, monitor, n + 1, acc)
    ELSE IF monitor[n].k = "response_times" /\ FirstValueRaises(monitor[n].v)
    THEN [metrics |-> acc, raised |-> TRUE]
    ELSE MonitorLoop(pos, monitor, n + 1,
            Append(acc, MetricOf(pos, monitor[n].k, monitor[n].v,
                                 MetricLabels(monitor))))

\* the body of `for monitor in ...["monitors"]` for the monitor at pos
TransformMonitor(pos, monitor, acc) == MonitorLoop(pos, monitor, 1, acc)

\* labels = {"job": UPTIME_ROBOT_EXPORTER_NAME}; labels |= metric["labels"]
SampleLabels(name, labels) ==
    [k \in {"job"} \cup DOMAIN labels |->
        IF k \in DOMAIN labels THEN labels[k] ELSE name]

\* the Metric with its one sample that collect() yields for a metric
Sample(metric) ==
    [name |-> metric.name, description |-> metric.description,
     type |-> metric.type,
     labels |-> SampleLabels(UPTIME_ROBOT_EXPORTER_NAME, metric.labels),
     value |-> metric.value, monitor |-> metric.monitor]

\* the list of the previous call used again (a list that outlives the call)
KeptMetrics == metrics

\* metrics = [] at the start of get_metrics
NewMetrics == <<>>

Range(q) == {q[n] : n \in 1..Len(q)}

\* get_metrics() raises while it transforms the monitors of res
RECURSIVE GetMetricsRaises(_, _)
GetMetricsRaises(res, pos) ==
    IF ~res.hasMonitors THEN TRUE
    ELSE IF pos > Len(res.monitors) THEN FALSE
    ELSE TransformMonitor(pos, res.monitors[pos], <<>>).raised
         \/ GetMetricsRaises(res, pos + 1)

(***************************************************************************)
(* main() after the listener has started, and the server thread            *)
(***************************************************************************)
\* main(): REGISTRY.register(UptimeRobotCollector()), then the sleep loop.
\* REGISTRY describes a collector without describe() by running its
\* collect() once, in the main thread: one upstream call, whose os._exit or
\* uncaught exception ends the process.
Register ==
    /\ alive /\ mainpc = "register"
    /\ \E res \in Responses :
        /\ apiKeySent' = UPTIME_ROBOT_API_KEY
        /\ IF GetMonitorsOutcome(res) = "return" /\ ~GetMetricsRaises(res, 1)
           THEN /\ registered' = TRUE
                /\ mainpc' = "sleep"
                /\ UNCHANGED <<alive, exitCode, srvpc>>
           ELSE /\ Exit(1)
                /\ UNCHANGED registered
    /\ UNCHANGED <<env, path, response, calls, idx, metrics, emitted, last,
                   first>>

Paths == {"/", "/favicon.ico", "/metrics", "/unknown"}

\* the status prometheus_app answers on a path that is not /metrics
StatusOf(p) ==
    CASE p = "/" -> "301 Moved Permanently"
      [] p = "/favicon.ico" -> "200 OK"
      [] OTHER -> "404 Not Found"

Request(p, st, n, res, smp) ==
    [path |-> p, status |-> st, calls |-> n, response |-> res,
     samples |-> smp]

\* prometheus_app on /, /favicon.ico and any other path but /metrics
ServeOtherPath ==
    /\ alive /\ srvpc = "idle"
    /\ \E p \in Paths \ {"/metrics"} :
        last' = Request(p, StatusOf(p), 0, NoResponse, <<>>)
    /\ UNCHANGED <<env, mainpc, alive, exitCode, registered, srvpc, path,
                   response, apiKeySent, calls, idx, metrics, emitted, first>>

\* prometheus_app on /metrics while REGISTRY holds no collector
ServeEmptyRegistry ==
    /\ alive /\ srvpc = "idle" /\ ~registered
    /\ last' = Request("/metrics", "200 OK", 0, NoResponse, <<>>)
    /\ UNCHANGED <<env, mainpc, alive, exitCode, registered, srvpc, path,
                   response, apiKeySent, calls, idx, metrics, emitted, first>>

\* prometheus_app on /metrics: _bake_output runs collect(), which enters
\* get_metrics()
BeginScrape ==
    /\ alive /\ srvpc = "idle" /\ registered
    /\ srvpc' = "fetch"
    /\ path' = "/metrics"
    /\ calls' = 0
    /\ idx' = 0
    /\ metrics' = NewMetrics
    /\ emitted' = <<>>
    /\ response' = NoResponse
    /\ last' = NoRequest
    /\ UNCHANGED <<env, mainpc, alive, exitCode, registered, apiKeySent,
                   first>>

\* the first collection cycle that ended
Remember(res, smp) ==
    IF first.seen THEN first
    ELSE [seen |-> TRUE, response |-> res, samples |-> smp]

\* an exception leaves collect(): the request ends with an error answer of
\* the WSGI server, nothing of the cycle is rendered, the process goes on
ScrapeRaises(res, n) ==
    /\ srvpc' = "idle"
    /\ last' = Request("/metrics", "500 Internal Server Error", n, res, <<>>)
    /\ first' = Remember(res, <<>>)
    /\ path' = ""
    /\ response' = NoResponse
    /\ calls' = 0
    /\ idx' = 0
    /\ emitted' = <<>>
    /\ UNCHANGED <<mainpc, alive, exitCode>>

\* _get_monitors()
GetMonitors ==
    /\ alive /\ srvpc = "fetch"
    /\ \E res \in Responses :
        /\ apiKeySent' = UPTIME_ROBOT_API_KEY
        /\ CASE GetMonitorsOutcome(res) = "exit" ->
                    /\ Exit(1)
                    /\ response' = res
                    /\ calls' = calls + 1
                    /\ UNCHANGED <<path, idx, emitted, last, first>>
             [] GetMonitorsOutcome(res) = "return" /\ res.hasMonitors ->
                    /\ response' = res
                    /\ calls' = calls + 1
                    /\ srvpc' = "transform"
                    /\ idx' = 1
                    /\ UNCHANGED <<mainpc, alive, exitCode, path, emitted,
                                   last, first>>
             [] OTHER -> ScrapeRaises(res, calls + 1)
    /\ UNCHANGED <<env, registered, metrics>>

\* get_metrics() as a generator: the metrics of a monitor are yielded as
\* soon as the monitor is transformed
TransformNextStreaming ==
    /\ alive /\ srvpc = "transform" /\ idx <= Len(response.monitors)
    /\ LET r == TransformMonitor(idx, response.monitors[idx], metrics)
       IN /\ metrics' = r.metrics
          /\ IF r.raised
             THEN ScrapeRaises(response, calls)
             ELSE /\ idx' = idx + 1
                  /\ emitted' = emitted \o
                        [n \in 1..(Len(r.metrics) - Len(metrics)) |->
                            Sample(r.metrics[Len(metrics) + n])]
                  /\ UNCHANGED <<mainpc, alive, exitCode, srvpc, path,
                                 response, calls, last, first>>
    /\ UNCHANGED <<env, registered, apiKeySent>>

\* get_metrics(): one round of `for monitor in ...`
TransformNext ==
    /\ alive /\ srvpc = "transform" /\ idx <= Len(response.monitors)
    /\ LET r == TransformMonitor(idx, response.monitors[idx], metrics)
       IN /\ metrics' = r.metrics
          /\ IF r.raised
             THEN ScrapeRaises(response, calls)
             ELSE /\ idx' = idx + 1
                  /\ UNCHANGED <<mainpc, alive, exitCode, srvpc, path,
                                 response, calls, emitted, last, first>>
    /\ UNCHANGED <<env, registered, apiKeySent>>

\* get_metrics() returns metrics; collect() starts `for metric in metrics`
ReturnMetrics ==
    /\ alive /\ srvpc = "transform" /\ idx > Len(response.monitors)
    /\ srvpc' = "yield"
    /\ idx' = 1
    /\ UNCHANGED <<env, mainpc, alive, exitCode, registered, path, response,
                   apiKeySent, calls, metrics, emitted, last, first>>

\* collect(): one round of `for metric in metrics`, up to the yield
YieldNext ==
    /\ alive /\ srvpc = "yield" /\ idx <= Len(metrics)
    /\ emitted' = Append(emitted, Sample(metrics[idx]))
    /\ idx' = idx + 1
    /\ UNCHANGED <<env, mainpc, alive, exitCode, registered, srvpc, path,
                   response, apiKeySent, calls, metrics, last, first>>

\* collect() is exhausted: prometheus_app answers with the rendered metrics
FinishScrape ==
    /\ alive /\ srvpc = "yield" /\ idx > Len(metrics)
    /\ srvpc' = "idle"
    /\ last' = Request("/metrics", "200 OK", calls, response, emitted)
    /\ first' = Remember(response, emitted)
    /\ path' = ""
    /\ response' = NoResponse
    /\ calls' = 0
    /\ idx' = 0
    /\ emitted' = <<>>
    /\ UNCHANGED <<env, mainpc, alive, exitCode, registered, apiKeySent,
                   metrics>>

Next ==
    \/ ConfigureLogging
    \/ CheckMandatoryEnv
    \/ CheckPort
    \/ StartHttpServer
    \/ Register
    \/ ServeOtherPath
    \/ ServeEmptyRegistry
    \/ BeginScrape
    \/ GetMonitors
    \/ TransformNext
    \/ ReturnMetrics
    \/ YieldNext
    \/ FinishScrape

Spec == Init /\ [][Next]_vars

\* the main thread runs the module-level statements one after the other
FairSpec ==
    Spec /\ WF_vars(ConfigureLogging) /\ WF_vars(CheckMandatoryEnv)
         /\ WF_vars(CheckPort)

(***************************************************************************)
(* Properties                                                              *)
(***************************************************************************)
\* the upstream call succeeded: HTTP 200, a JSON body with "stat": "ok" and
\* the list of monitors
Successful(res) ==
    /\ res.transport /\ res.status_code = 200 /\ res.parseable
    /\ res.stat = "ok" /\ res.hasMonitors

\* the upstream call failed: network failure, non-200 status, "stat": "fail",
\* another "stat", or a body that does not have the expected shape
UpstreamFailed(res) == res # NoResponse /\ ~Successful(res)

Keys(monitor) == {monitor[n].k : n \in 1..Len(monitor)}

EmptyHistory(monitor) ==
    "response_times" \in Keys(monitor)
    /\ ValueOf(monitor, "response_times") = ListV(<<>>)

\* the enabled metric fields of a record: status, and response_times when
\* its sequence is not empty
EnabledFields(monitor) ==
    {k \in Keys(monitor) :
        \/ k = "status"
        \/ k = "response_times" /\ ~EmptyHistory(monitor)}

\* the positions in the sequence of samples that belong to monitor pos
SamplesOf(samples, pos) == {n \in 1..Len(samples) : samples[n].monitor = pos}

NoDuplicates(samples) ==
    \A a, b \in 1..Len(samples) : a # b => samples[a] # samples[b]

\* a collection cycle on a successful upstream response has ended
CycleEndedOnSuccess == last.path = "/metrics" /\ Successful(last.response)

\* C1: a collection cycle on a successful upstream response yields, for
\* every monitor of the response, exactly as many samples as the record has
\* enabled metric fields (status always, response_times when not empty), and
\* no sample twice.
C1_SamplesPerMonitor ==
    CycleEndedOnSuccess =>
        /\ \A pos \in 1..Len(last.response.monitors) :
              Cardinality(SamplesOf(last.samples, pos))
                  = Cardinality(EnabledFields(last.response.monitors[pos]))
        /\ Len(last.samples) =
              Cardinality(UNION {SamplesOf(last.samples, pos) :
                                    pos \in 1..Len(last.response.monitors)})
        /\ NoDuplicates(last.samples)

\* C2: when a monitor of the response has an empty response-time sequence,
\* the cycle ends without error, that monitor has its status sample and no
\* response-time sample, and every other monitor has all of its samples.
C2_EmptyHistorySkipped ==
    (/\ CycleEndedOnSuccess
     /\ \E pos \in 1..Len(last.response.monitors) :
            EmptyHistory(last.response.monitors[pos]))
    => /\ last.status = "200 OK"
       /\ \A pos \in 1..Len(last.response.monitors) :
            {last.samples[n].name : n \in SamplesOf(last.samples, pos)}
              = {IF k = "status" THEN "uptime_robot_status"
                 ELSE "uptime_robot_response_time" :
                    k \in EnabledFields(last.response.monitors[pos])}

\* C3: every sample collect() has yielded carries a job label whose value
\* is the configured exporter name.
C3_JobLabel ==
    \A n \in 1..Len(emitted) :
        /\ "job" \in DOMAIN emitted[n].labels
        /\ emitted[n].labels["job"] = UPTIME_ROBOT_EXPORTER_NAME
\* the values the truthy filter drops: 0, "", null, false (and [])
FalsyValues == {IntV(0), StrV(""), NullV, BoolV(FALSE), ListV(<<>>)}

\* the fields of a record that become labels: not sourced by a metric of the
\* table, not average_response_time, and with a value that is not falsy
LabelFields(monitor) ==
    {n \in 1..Len(monitor) :
        /\ monitor[n].k \notin {"status", "response_times"}
        /\ monitor[n].k # "average_response_time"
        /\ monitor[n].v \notin FalsyValues}

\* the field is a label of the sample: its name with its value as a string
AppearsAsLabel(field, labels) ==
    field.k \in DOMAIN labels /\ labels[field.k] = Str(field.v)

\* C4: the label names of every yielded sample are exactly job and the
\* names of the record's fields that are not metric-sourced, not
\* average_response_time and truthy; each such field is a label with its
\* value as a string; a field with a falsy value is no label, and status and
\* response_times are no label names.
C4_LabelSet ==
    \A n \in 1..Len(emitted) :
        LET labels == emitted[n].labels
            monitor == response.monitors[emitted[n].monitor]
        IN /\ DOMAIN labels
                = {"job"} \cup {monitor[f].k : f \in LabelFields(monitor)}
           /\ \A f \in LabelFields(monitor) :
                AppearsAsLabel(monitor[f], labels)
           /\ \A f \in 1..Len(monitor) :
                monitor[f].v \in FalsyValues
                    => ~AppearsAsLabel(monitor[f], labels)
           /\ "status" \notin DOMAIN labels
           /\ "response_times" \notin DOMAIN labels

\* a sample of a record with falsy fields, with a field that is both falsy
\* and named job, has been yielded
C4_Witness ==
    \E n \in 1..Len(emitted) :
        LET monitor == response.monitors[emitted[n].monitor]
        IN /\ \E f \in 1..Len(monitor) : monitor[f] = Field("id", IntV(0))
           /\ \E f \in 1..Len(monitor) : monitor[f] = Field("ssl", NullV)
           /\ "response_times" \notin DOMAIN emitted[n].labels
           /\ Cardinality(DOMAIN emitted[n].labels) = 1

\* C5: an upstream call that fails during a scrape (network failure, non-200
\* status, "stat": "fail", another "stat", a body without the expected
\* shape) has terminated the process with a non-zero exit code, and the
\* failed scrape is not answered.
C5_FailureTerminates ==
    /\ UpstreamFailed(response) => ~alive /\ exitCode > 0
    /\ ~UpstreamFailed(last.response)

\* C6: a cycle whose upstream call failed has yielded no sample, and a
\* sample is yielded only after the upstream call returned and every
\* monitor of the response has been transformed.
C6_AllOrNothing ==
    /\ UpstreamFailed(response) => emitted = <<>>
    /\ UpstreamFailed(last.response) => last.samples = <<>>
    /\ emitted # <<>> =>
        /\ Successful(response)
        /\ \A pos \in 1..Len(response.monitors) :
             Cardinality(SamplesOf(metrics, pos))
                = Cardinality(EnabledFields(response.monitors[pos]))

\* a cycle whose upstream call was rejected with "stat": "fail" has ended
\* the process with no sample yielded
C6_Witness ==
    /\ ~alive /\ srvpc = "stopped"
    /\ response.stat = "fail" /\ response.status_code = 200
    /\ calls = 1 /\ emitted = <<>>

\* C7: a served scrape of /metrics has made exactly one upstream call and
\* its samples come from the response of that call; a request on another
\* path has made none.
C7_OneCallPerScrape ==
    /\ (last.path = "/metrics" /\ last.status = "200 OK") =>
            /\ last.calls = 1
            /\ Successful(last.response)
            /\ \A n \in 1..Len(last.samples) :
                 last.samples[n].monitor \in 1..Len(last.response.monitors)
    /\ last.path \in Paths \ {"/metrics"} => last.calls = 0

\* C8: whenever an upstream call has been made, the API key it sent is not
\* empty: the configured key is neither absent nor empty.
C8_KeyNotEmpty ==
    apiKeySent # NotSent =>
        /\ env.key.set
        /\ env.key.v # ""
        /\ apiKeySent = env.key.v

\* C8 (amended): whenever an upstream call has been made, the API key
\* variable is set in the environment (possibly to the empty string) and the
\* call sent its value.
C8_KeySet ==
    apiKeySent # NotSent => env.key.set /\ apiKeySent = env.key.v

\* an upstream call of a scrape has sent the configured key
C8_Witness ==
    srvpc = "transform" /\ calls = 1 /\ env.key.set /\ apiKeySent = env.key.v

\* the configuration fails a startup validation: API key absent, port that
\* is no integer, unknown log level, unknown timezone
ConfigFails ==
    \/ ~env.key.set
    \/ env.port = SetTo(<<"8", "x">>)
    \/ env.loglevel = SetTo("verbose")
    \/ env.tz = SetTo("Mars/Phobos")

\* the listener is not started, no request was served, no upstream call
\* was made, and a process that ended has a non-zero exit code
NoListener ==
    /\ srvpc = "down"
    /\ last = NoRequest
    /\ apiKeySent = NotSent
    /\ mainpc \in {"logging", "mandatory", "port", "exited"}
    /\ ~alive => exitCode > 0

\* C9: in a run whose configuration fails a startup validation the listener
\* is never started and no request is ever served, and the process ends
\* with a non-zero exit code.
C9_FailsBeforeListener ==
    /\ [](ConfigFails => NoListener)
    /\ ConfigFails ~> (~alive /\ exitCode > 0)

\* a process with a failing configuration has exited before the listener
C9_Witness == ConfigFails /\ ~alive /\ exitCode = 1 /\ srvpc = "down"

\* C10: a cycle on the response of the first cycle ever run yields the same
\* set of samples as that first cycle, whatever cycles ran in between.
C10_Stateless ==
    /\ (/\ first.seen /\ srvpc = "yield" /\ idx > Len(metrics)
        /\ response = first.response)
       => Range(emitted) = Range(first.samples)
    /\ (first.seen /\ last.response = first.response /\ last.path = "/metrics")
       => Range(last.samples) = Range(first.samples)

\* a later cycle has yielded all the samples of a response that the first
\* cycle had collected too
C10_Witness ==
    /\ first.seen /\ srvpc = "yield" /\ idx > Len(metrics)
    /\ response = first.response /\ Len(emitted) > 1
====
